---- MODULE Spec2Model ----
(***************************************************************************)
(* Model of track_squishmallows.py: one run of main() is load_state,       *)
(* scrape_items, the diff loop, the guarded send_alert and save_state.     *)
(* Text is modelled as sequences of one-character strings so that the      *)
(* substring tests and the price pattern are computed, not assumed.        *)
(* A price is held in cents: the float of a two-decimal literal is decided *)
(* by its integer and its two decimals, which is what cents record.        *)
(***************************************************************************)
EXTENDS Integers, Sequences, FiniteSets, TLC

VARIABLES file, env, upstream, pc, old_state, page, current_items, new_state,
          changed, err, sessions, outbox, log, runs, fileAtStart, prev,
          lastSaver, overlapped

vars == <<file, env, upstream, pc, old_state, page, current_items, new_state,
          changed, err, sessions, outbox, log, runs, fileAtStart, prev,
          lastSaver, overlapped>>

\* ---------------------------------------------------------------- bounds

\* Candidate blocks on one fetched page.
MaxBlocks == 2
\* Invocations of the script by the external scheduler, one after another.
MaxRuns == 2

\* ------------------------------------------------------------- text helpers

Digits == {"0", "1", "2", "3", "4", "5", "6", "7", "8", "9"}

DigitVal(c) ==
    CASE c = "0" -> 0 [] c = "1" -> 1 [] c = "2" -> 2 [] c = "3" -> 3
      [] c = "4" -> 4 [] c = "5" -> 5 [] c = "6" -> 6 [] c = "7" -> 7
      [] c = "8" -> 8 [] c = "9" -> 9

\* Python's `sub in text` on strings.
Contains(sub, text) ==
    \E i \in 0..(Len(text) - Len(sub)) : SubSeq(text, i + 1, i + Len(sub)) = sub

\* Python's text[:n].
Prefix(text, n) == SubSeq(text, 1, IF Len(text) < n THEN Len(text) ELSE n)

RECURSIVE DecimalValue(_)
\* int of a run of decimal digits.
DecimalValue(ds) ==
    IF ds = <<>> THEN 0
    ELSE 10 * DecimalValue(SubSeq(ds, 1, Len(ds) - 1)) + DigitVal(ds[Len(ds)])

\* -------------------------------------------------------------- configuration

SEARCH_URL == [origin |-> "https://www.frysfood.com", path |-> "/q/squishmallow"]

SMALL_SIZES == << <<"2", ".", "5", " ", "i", "n">>, <<"4", " ", "i", "n">>,
                  <<"5", " ", "i", "n">>, <<"6", " ", "i", "n">>,
                  <<"7", " ", "i", "n">>, <<"8", " ", "i", "n">> >>

Squishmallow == <<"S", "q", "u", "i", "s", "h", "m", "a", "l", "l", "o", "w">>
Squishmallows == Squishmallow \o <<"s">>
Squish == <<"S", "q", "u", "i", "s", "h">>

\* The slice text[:80] of the name fallback.
NameSlice == 80

\* is_small_size's None: no label; `if not size` rejects it, every label being
\* non-empty.
NoSize == <<>>
\* parse_price's None, kept apart from every price (a price is >= 0 cents).
NoPrice == -1

\* ------------------------------------------------------------ pure functions

\* Length of the run of digits of text starting at position i.
RECURSIVE DigitRun(_, _)
DigitRun(text, i) ==
    IF i <= Len(text) /\ text[i] \in Digits THEN 1 + DigitRun(text, i + 1) ELSE 0

\* Whether \$([\d]+\.\d{2}) matches with its "$" at position i: the greedy digit
\* run must be followed by "." and two digits (a shorter run cannot be, the
\* character after it being a digit).
PriceMatchAt(text, i) ==
    LET n == DigitRun(text, i + 1) IN
        /\ i <= Len(text) /\ text[i] = "$"
        /\ n >= 1
        /\ i + n + 3 <= Len(text)
        /\ text[i + n + 1] = "."
        /\ text[i + n + 2] \in Digits
        /\ text[i + n + 3] \in Digits

parse_price(text) ==
    LET hits == {i \in 1..Len(text) : PriceMatchAt(text, i)} IN
        IF hits = {} THEN NoPrice
        ELSE LET i == CHOOSE h \in hits : \A g \in hits : h <= g
                 n == DigitRun(text, i + 1)
             IN  100 * DecimalValue(SubSeq(text, i + 1, i + n))
                   + DecimalValue(SubSeq(text, i + n + 2, i + n + 3))

RECURSIVE SizeFrom(_, _)
\* The loop of is_small_size from label k on.
SizeFrom(text, k) ==
    IF k > Len(SMALL_SIZES) THEN NoSize
    ELSE IF Contains(SMALL_SIZES[k], text) THEN SMALL_SIZES[k]
    ELSE SizeFrom(text, k + 1)

is_small_size(text) == SizeFrom(text, 1)

\* urljoin(SEARCH_URL, href) for the hrefs of the model: an absolute URL is
\* kept, a root-relative path takes the search URL's origin, an empty href is
\* the search URL itself.
urljoin(base, href) ==
    CASE href.kind = "abs"   -> [origin |-> href.origin, path |-> href.path]
      [] href.kind = "root"  -> [origin |-> base.origin, path |-> href.path]
      [] href.kind = "empty" -> base

\* ------------------------------------------------------------------ scraping

\* A candidate block (one element of product_cards) is a record
\*   text     : its flattened text, card.get_text(" ", strip=True)
\*   name_el  : <<>> or <<t>>, the text of [data-qa="product-name"]
\*   tags     : the texts of its h2/h3/h4/strong/a elements, in document order
\*   price_el : <<>> or <<t>>, the text of the price element
\*   href     : [kind |-> "none"] or the first a[href]'s href
\*   size_txt : the size phrase the listing shows (what the product's size is)

RECURSIVE FirstSquish(_, _)
\* The loop over find_all([...]) of the name fallback: <<>> when it finds none.
FirstSquish(tags, k) ==
    IF k > Len(tags) THEN <<>>
    ELSE IF Contains(Squish, tags[k]) THEN tags[k]
    ELSE FirstSquish(tags, k + 1)

NameOf(card) ==
    IF card.name_el # <<>> THEN card.name_el[1]
    ELSE LET name == FirstSquish(card.tags, 1) IN
             IF name = <<>> THEN Prefix(card.text, NameSlice) ELSE name

HasKeyword(text) == Contains(Squishmallow, text) \/ Contains(Squishmallows, text)

PriceOf(card) ==
    parse_price(IF card.price_el # <<>> THEN card.price_el[1] ELSE card.text)

UrlOf(card) ==
    IF card.href.kind # "none" THEN urljoin(SEARCH_URL, card.href) ELSE SEARCH_URL

\* Whether the loop body reaches the duplicate test for this block.
Passes(card) ==
    /\ HasKeyword(card.text)
    /\ is_small_size(card.text) # NoSize
    /\ PriceOf(card) # NoPrice

ItemOf(card) ==
    [key |-> UrlOf(card), name |-> NameOf(card), size |-> is_small_size(card.text),
     price |-> PriceOf(card), url |-> UrlOf(card)]

\* Variant: no duplicate test.
NeverDuplicate(key, seen) == FALSE

\* The duplicate test of the loop: the key against the keys accepted so far.
Duplicate(key, seen) == key \in seen

RECURSIVE ScrapeLoopReserving(_, _, _, _)
\* Variant: the key is added to seen before the block is judged, so a rejected
\* block reserves its URL.
ScrapeLoopReserving(cards, i, seen, items) ==
    IF i > Len(cards) THEN items
    ELSE IF ~Passes(cards[i]) \/ Duplicate(UrlOf(cards[i]), seen)
    THEN ScrapeLoopReserving(cards, i + 1, seen \cup {UrlOf(cards[i])}, items)
    ELSE ScrapeLoopReserving(cards, i + 1, seen \cup {UrlOf(cards[i])},
                             Append(items, ItemOf(cards[i])))

RECURSIVE ScrapeLoop(_, _, _, _)
\* `for card in product_cards` from block i on, with the set seen and the
\* list items built so far.
ScrapeLoop(cards, i, seen, items) ==
    IF i > Len(cards) THEN items
    ELSE IF ~Passes(cards[i]) THEN ScrapeLoop(cards, i + 1, seen, items)
    ELSE IF Duplicate(UrlOf(cards[i]), seen) THEN ScrapeLoop(cards, i + 1, seen, items)
    ELSE ScrapeLoop(cards, i + 1, seen \cup {UrlOf(cards[i])},
                    Append(items, ItemOf(cards[i])))

\* scrape_items on the candidate blocks of a fetched page.
Extract(cards) == ScrapeLoop(cards, 1, {}, <<>>)

\* -------------------------------------------------------- the pages modelled

Sp == <<" ">>
Plush == <<"P", "l", "u", "s", "h">>
In5 == <<"5", " ", "i", "n">>
In2p5 == <<"2", ".", "5", " ", "i", "n">>
In12 == <<"1", "2", " ", "i", "n">>
In16 == <<"1", "6", " ", "i", "n">>
P1500 == <<"$", "1", "5", ".", "0", "0">>
P1250 == <<"$", "1", "2", ".", "5", "0">>
P15 == <<"$", "1", "5">>

HrefA == [kind |-> "root", path |-> "/p/a"]
HrefAabs == [kind |-> "abs", origin |-> "https://www.frysfood.com", path |-> "/p/a"]
HrefB == [kind |-> "root", path |-> "/p/b"]
NoHref == [kind |-> "none"]
EmptyHref == [kind |-> "empty"]

\* A product card whose name, size phrase and price follow one another; the
\* name is in a link when the card has one.
Card(nameTxt, hasNameEl, sizeTxt, priceTxt, hasPriceEl, href) ==
    [text     |-> nameTxt \o Sp \o sizeTxt \o Sp \o priceTxt,
     name_el  |-> IF hasNameEl THEN <<nameTxt>> ELSE <<>>,
     tags     |-> IF href.kind # "none" THEN <<nameTxt>> ELSE <<>>,
     price_el |-> IF hasPriceEl THEN <<priceTxt>> ELSE <<>>,
     href     |-> href,
     size_txt |-> sizeTxt]

\* Item a, a 5 in plush at $15.00, with name and price elements.
CardA == Card(Squishmallow, TRUE, In5, P1500, TRUE, HrefA)
\* Item a again at $12.50, linked by its absolute URL, the price in the text.
CardA2 == Card(Squishmallows, FALSE, In5, P1250, FALSE, HrefAabs)
\* Item b, a 16 in plush.
CardBig == Card(Squishmallow, TRUE, In16, P1500, TRUE, HrefB)
\* A 12 in plush under item a's link.
CardTwelve == Card(Squishmallow, FALSE, In12, P1500, TRUE, HrefA)
\* A 2.5 in plush with no link at all.
CardTiny == Card(Squishmallow, FALSE, In2p5, P1250, FALSE, NoHref)
\* Another product family.
CardPlush == Card(Plush, TRUE, In5, P1500, TRUE, HrefB)
\* A 5 in plush whose price has no decimals, its link's href empty.
CardNoCents == Card(Squishmallow, TRUE, In5, P15, TRUE, EmptyHref)

Cards == {CardA, CardA2, CardBig, CardTwelve, CardTiny, CardPlush, CardNoCents}

RECURSIVE SeqsUpTo(_, _)
\* The sequences over S of length at most n.
SeqsUpTo(S, n) ==
    IF n = 0 THEN {<<>>}
    ELSE LET shorter == SeqsUpTo(S, n - 1) IN
             shorter \cup {Append(q, c) : q \in shorter, c \in S}

Pages == SeqsUpTo(Cards, MaxBlocks)

\* Pages of three listings, for runs that follow one another.
RerunPages == SeqsUpTo({CardA, CardA2, CardTiny}, MaxBlocks)

\* Pages of different lengths, for instances that run side by side.
ConcPages == {<<>>, <<CardA>>, <<CardA2>>, <<CardA, CardBig>>, <<CardTiny, CardA2>>}

\* What the site may answer the GET with; upstream names which of the page
\* sets above the site is serving from.
Served(u) ==
    CASE u = "catalogue" -> Pages
      [] u = "listings"  -> RerunPages
      [] u = "race"      -> ConcPages

\* ------------------------------------------------------- dicts and the file

\* A Python dict: its keys in insertion order and its mapping.
EmptyDict == [keys |-> <<>>, val |-> <<>>]

HasKey(d, k) == \E i \in 1..Len(d.keys) : d.keys[i] = k

\* d[k] = v: a new key goes last, a known key keeps its place.
DictPut(d, k, v) ==
    [keys |-> IF HasKey(d, k) THEN d.keys ELSE Append(d.keys, k),
     val  |-> [x \in {d.keys[i] : i \in 1..Len(d.keys)} \cup {k} |->
                  IF x = k THEN v ELSE d.val[x]]]

\* A dict as a mapping, which is what == compares: its key/value pairs.
AsMapping(d) == {<<d.keys[i], d.val[d.keys[i]]>> : i \in 1..Len(d.keys)}

\* The JSON text of json.dump(state): an opening brace, one member per key in
\* insertion order, a closing brace.
Serialize(d) ==
    <<[t |-> "{"]>>
      \o [i \in 1..Len(d.keys) |-> [t |-> "member", key |-> d.keys[i],
                                      value |-> d.val[d.keys[i]]]]
      \o <<[t |-> "}"]>>

\* Whether json.load accepts the text as one object.
WellFormed(data) ==
    /\ Len(data) >= 2
    /\ data[1].t = "{"
    /\ data[Len(data)].t = "}"
    /\ \A i \in 2..(Len(data) - 1) : data[i].t = "member"

RECURSIVE ParseMembers(_, _, _)
\* json.load's object: members in order, a repeated key keeping its last value.
ParseMembers(data, i, d) ==
    IF i > Len(data) - 1 THEN d
    ELSE ParseMembers(data, i + 1, DictPut(d, data[i].key, data[i].value))

Parse(data) == ParseMembers(data, 2, EmptyDict)

NoFile == [exists |-> FALSE, data |-> <<>>]

\* Variant: the file is opened without truncation (mode "r+").
OpenedInPlace == [exists |-> TRUE, data |-> file.data]

\* open(STATE_FILE, "w"): the file exists and is empty.
Truncated == [exists |-> TRUE, data |-> <<>>]

\* The buffered text written at close, from this handle's offset 0: it replaces
\* what the file holds there and leaves what lies beyond it. (A snapshot within
\* the writer's buffer goes out in this one write.)
WriteAtStart(f, data) ==
    [exists |-> TRUE, data |-> data \o SubSeq(f.data, Len(data) + 1, Len(f.data))]

\* ------------------------------------------------------------------- main()

RECURSIVE DiffLoopIncreases(_, _, _, _, _)
\* Variant: `price > old_price` in place of `price != old_price`.
DiffLoopIncreases(old, items, i, new, chg) ==
    IF i > Len(items) THEN [new_state |-> new, changed |-> chg]
    ELSE LET item == items[i]
             new2 == DictPut(new, item.key,
                             [name |-> item.name, size |-> item.size,
                              price |-> item.price, url |-> item.url])
         IN  IF HasKey(old, item.key) /\ item.price > old.val[item.key].price
             THEN DiffLoopIncreases(old, items, i + 1, new2,
                           Append(chg, [name |-> item.name, size |-> item.size,
                                        url |-> item.url,
                                        old_price |-> old.val[item.key].price,
                                        price |-> item.price]))
             ELSE DiffLoopIncreases(old, items, i + 1, new2, chg)

RECURSIVE DiffLoop(_, _, _, _, _)
\* `for item in current_items` from item i on: the pair of new_state and changed.
DiffLoop(old, items, i, new, chg) ==
    IF i > Len(items) THEN [new_state |-> new, changed |-> chg]
    ELSE LET item == items[i]
             new2 == DictPut(new, item.key,
                             [name |-> item.name, size |-> item.size,
                              price |-> item.price, url |-> item.url])
         IN  IF HasKey(old, item.key) /\ item.price # old.val[item.key].price
             THEN DiffLoop(old, items, i + 1, new2,
                           Append(chg, [name |-> item.name, size |-> item.size,
                                        url |-> item.url,
                                        old_price |-> old.val[item.key].price,
                                        price |-> item.price]))
             ELSE DiffLoop(old, items, i + 1, new2, chg)

\* Variant: new_state starts as a copy of old_state.
MainLoopMerging(old, items) == DiffLoop(old, items, 1, old, <<>>)

\* Lines 138-160 of main(): new_state = {}, changed = [], then the loop.
MainLoop(old, items) == DiffLoop(old, items, 1, EmptyDict, <<>>)

\* An environment variable: <<>> when unset (os.environ.get gives None), else
\* <<v>> with its value, which may be the empty string.
Truthy(c) == c # <<>> /\ c[1] # ""

EnvValues == {<<>>, <<"">>, <<"me@example.com">>}
Unusable(e) == {v \in {"EMAIL_USER", "EMAIL_PASS", "ALERT_TO"} : ~Truthy(e[v])}
\* The environments modelled: all three values usable, one of them unset or
\* empty, or none of them set.
Envs ==
    {e \in [EMAIL_USER : EnvValues, EMAIL_PASS : EnvValues, ALERT_TO : EnvValues] :
        \/ Cardinality(Unusable(e)) <= 1
        \/ \A v \in DOMAIN e : e[v] = <<>>}

\* Variant: the guard tests the list only, not the credentials.
AlertGuardListOnly(e, chg) == chg = <<>>

\* The first line of send_alert: whether it returns without sending.
AlertGuard(e, chg) ==
    chg = <<>> \/ ~(Truthy(e.EMAIL_USER) /\ Truthy(e.EMAIL_PASS) /\ Truthy(e.ALERT_TO))

\* The condition of main() under which send_alert is called.
CallsAlert(old, chg) == old.keys # <<>> /\ chg # <<>>

\* The message send_alert builds: the count in its subject, its headers, one
\* body block per changed item.
Message(e, chg) ==
    [subject_count |-> Len(chg), from |-> e.EMAIL_USER, to |-> e.ALERT_TO,
     body |-> [i \in 1..Len(chg) |->
                  [name |-> chg[i].name, size |-> chg[i].size,
                   old_price |-> chg[i].old_price, price |-> chg[i].price,
                   link |-> chg[i].url]]]

\* Where the SMTP session may raise, or "ok".
SmtpOutcomes == {"connect", "starttls", "login", "send", "ok"}

Procs == {1, 2}

\* ------------------------------------------------------------------ actions

\* What a completed earlier run on the page leaves in the file.
SnapshotOf(cards) ==
    [exists |-> TRUE, data |-> Serialize(MainLoop(EmptyDict, Extract(cards)).new_state)]

\* The snapshot file before the first modelled invocation: none yet, or the
\* one an earlier run saved.
InitFiles == {NoFile, SnapshotOf(<<CardA>>), SnapshotOf(<<CardA, CardBig>>)}

NoPrev == [valid |-> FALSE, fetched |-> FALSE, page |-> <<>>, changed |-> <<>>,
           outcome |-> "none", called |-> FALSE]

InitLocals ==
    /\ pc = [p \in Procs |-> "start"]
    /\ old_state = [p \in Procs |-> EmptyDict]
    /\ page = [p \in Procs |-> <<>>]
    /\ current_items = [p \in Procs |-> <<>>]
    /\ new_state = [p \in Procs |-> EmptyDict]
    /\ changed = [p \in Procs |-> <<>>]
    /\ err = [p \in Procs |-> "none"]
    /\ sessions = [p \in Procs |-> 0]
    /\ outbox = [p \in Procs |-> <<>>]
    /\ log = [p \in Procs |-> <<>>]
    /\ runs = [p \in Procs |-> 1]
    /\ prev = [p \in Procs |-> NoPrev]
    /\ lastSaver = 0
    /\ overlapped = FALSE

Init ==
    /\ file \in InitFiles
    /\ env \in Envs
    /\ upstream = "catalogue"
    /\ fileAtStart = [p \in Procs |-> file]
    /\ InitLocals

\* old_state = load_state(): {} when the file is absent, the parsed object when
\* json.load accepts it, else the exception ends the run.
LoadState(p) ==
    /\ pc[p] = "start"
    /\ log' = [log EXCEPT ![p] = Append(@, "load")]
    /\ IF ~file.exists
       THEN /\ old_state' = [old_state EXCEPT ![p] = EmptyDict]
            /\ pc' = [pc EXCEPT ![p] = "loaded"]
            /\ err' = err
       ELSE IF WellFormed(file.data)
       THEN /\ old_state' = [old_state EXCEPT ![p] = Parse(file.data)]
            /\ pc' = [pc EXCEPT ![p] = "loaded"]
            /\ err' = err
       ELSE /\ old_state' = old_state
            /\ pc' = [pc EXCEPT ![p] = "failed"]
            /\ err' = [err EXCEPT ![p] = "state"]
    /\ UNCHANGED <<file, env, upstream, page, current_items, new_state, changed,
                   sessions, outbox, runs, fileAtStart, prev, lastSaver, overlapped>>

\* current_items = scrape_items(), the GET answered with a page.
Fetch(p) ==
    /\ pc[p] = "loaded"
    /\ \E pg \in Served(upstream) :
          /\ page' = [page EXCEPT ![p] = pg]
          /\ current_items' = [current_items EXCEPT ![p] = Extract(pg)]
    /\ pc' = [pc EXCEPT ![p] = "scraped"]
    /\ log' = [log EXCEPT ![p] = Append(@, "fetch")]
    /\ UNCHANGED <<file, env, upstream, old_state, new_state, changed, err,
                   sessions, outbox, runs, fileAtStart, prev, lastSaver, overlapped>>

\* Variant: the exception is swallowed and the run goes on with no items.
FetchFailSwallowed(p) ==
    /\ pc[p] = "loaded"
    /\ pc' = [pc EXCEPT ![p] = "scraped"]
    /\ err' = [err EXCEPT ![p] = "fetch"]
    /\ log' = [log EXCEPT ![p] = Append(@, "fetch")]
    /\ UNCHANGED <<file, env, upstream, old_state, page, current_items, new_state,
                   changed, sessions, outbox, runs, fileAtStart, prev, lastSaver,
                   overlapped>>

\* requests.get raises, or raise_for_status does: the exception ends the run.
FetchFail(p) ==
    /\ pc[p] = "loaded"
    /\ pc' = [pc EXCEPT ![p] = "failed"]
    /\ err' = [err EXCEPT ![p] = "fetch"]
    /\ log' = [log EXCEPT ![p] = Append(@, "fetch")]
    /\ UNCHANGED <<file, env, upstream, old_state, page, current_items, new_state,
                   changed, sessions, outbox, runs, fileAtStart, prev, lastSaver,
                   overlapped>>

\* The loop of main() that builds new_state and changed.
Diff(p) ==
    /\ pc[p] = "scraped"
    /\ LET r == MainLoop(old_state[p], current_items[p]) IN
          /\ new_state' = [new_state EXCEPT ![p] = r.new_state]
          /\ changed' = [changed EXCEPT ![p] = r.changed]
    /\ pc' = [pc EXCEPT ![p] = "diffed"]
    /\ log' = [log EXCEPT ![p] = Append(@, "diff")]
    /\ UNCHANGED <<file, env, upstream, old_state, page, current_items, err,
                   sessions, outbox, runs, fileAtStart, prev, lastSaver, overlapped>>

\* `if old_state and changed` is false: main() goes on to save_state.
AlertSkip(p) ==
    /\ pc[p] = "diffed"
    /\ ~CallsAlert(old_state[p], changed[p])
    /\ pc' = [pc EXCEPT ![p] = "alerted"]
    /\ UNCHANGED <<file, env, upstream, old_state, page, current_items, new_state,
                   changed, err, sessions, outbox, log, runs, fileAtStart, prev,
                   lastSaver, overlapped>>

\* Variant: save_state is called before send_alert, so the snapshot is written
\* by the time the SMTP session raises.
SendAlertAfterSave(p) ==
    /\ pc[p] = "diffed"
    /\ CallsAlert(old_state[p], changed[p])
    /\ log' = [log EXCEPT ![p] = Append(@, "alert")]
    /\ IF AlertGuard(env, changed[p])
       THEN /\ pc' = [pc EXCEPT ![p] = "alerted"]
            /\ UNCHANGED <<sessions, outbox, err, file>>
       ELSE \E outcome \in SmtpOutcomes :
               /\ sessions' = [sessions EXCEPT ![p] = @ + 1]
               /\ IF outcome = "ok"
                  THEN /\ outbox' = [outbox EXCEPT ![p] = Append(@, Message(env, changed[p]))]
                       /\ pc' = [pc EXCEPT ![p] = "alerted"]
                       /\ UNCHANGED <<err, file>>
                  ELSE /\ outbox' = outbox
                       /\ pc' = [pc EXCEPT ![p] = "failed"]
                       /\ err' = [err EXCEPT ![p] = "smtp"]
                       /\ file' = WriteAtStart(Truncated, Serialize(new_state[p]))
    /\ UNCHANGED <<env, upstream, old_state, page, current_items, new_state,
                   changed, runs, fileAtStart, prev, lastSaver, overlapped>>

\* send_alert(changed): it returns at its guard, or opens one SMTP session,
\* which sends the message or raises.
SendAlert(p) ==
    /\ pc[p] = "diffed"
    /\ CallsAlert(old_state[p], changed[p])
    /\ log' = [log EXCEPT ![p] = Append(@, "alert")]
    /\ IF AlertGuard(env, changed[p])
       THEN /\ pc' = [pc EXCEPT ![p] = "alerted"]
            /\ UNCHANGED <<sessions, outbox, err>>
       ELSE \E outcome \in SmtpOutcomes :
               /\ sessions' = [sessions EXCEPT ![p] = @ + 1]
               /\ IF outcome = "ok"
                  THEN /\ outbox' = [outbox EXCEPT ![p] = Append(@, Message(env, changed[p]))]
                       /\ pc' = [pc EXCEPT ![p] = "alerted"]
                       /\ err' = err
                  ELSE /\ outbox' = outbox
                       /\ pc' = [pc EXCEPT ![p] = "failed"]
                       /\ err' = [err EXCEPT ![p] = "smtp"]
    /\ UNCHANGED <<file, env, upstream, old_state, page, current_items, new_state,
                   changed, runs, fileAtStart, prev, lastSaver, overlapped>>

\* Variant: save_state is reached without passing the alert step.
SaveOpenEarly(p) ==
    /\ pc[p] \in {"diffed", "alerted"}
    /\ file' = Truncated
    /\ pc' = [pc EXCEPT ![p] = "opened"]
    /\ log' = [log EXCEPT ![p] = Append(@, "save")]
    /\ overlapped' = (overlapped \/ \E q \in Procs \ {p} : pc[q] = "opened")
    /\ UNCHANGED <<env, upstream, old_state, page, current_items, new_state, changed,
                   err, sessions, outbox, runs, fileAtStart, prev, lastSaver>>

\* save_state, line 35: open(STATE_FILE, "w") truncates the file.
SaveOpen(p) ==
    /\ pc[p] = "alerted"
    /\ file' = Truncated
    /\ pc' = [pc EXCEPT ![p] = "opened"]
    /\ log' = [log EXCEPT ![p] = Append(@, "save")]
    /\ overlapped' = (overlapped \/ \E q \in Procs \ {p} : pc[q] = "opened")
    /\ UNCHANGED <<env, upstream, old_state, page, current_items, new_state, changed,
                   err, sessions, outbox, runs, fileAtStart, prev, lastSaver>>

\* save_state, line 36 and the end of the with block: the JSON text reaches the
\* file when it is closed.
SaveWrite(p) ==
    /\ pc[p] = "opened"
    /\ file' = WriteAtStart(file, Serialize(new_state[p]))
    /\ pc' = [pc EXCEPT ![p] = "done"]
    /\ lastSaver' = p
    /\ UNCHANGED <<env, upstream, old_state, page, current_items, new_state, changed,
                   err, sessions, outbox, log, runs, fileAtStart, prev, overlapped>>

\* The external scheduler runs the script again after the run has ended, with
\* the environment it is configured with; prev keeps what the run just ended
\* fetched, found and how it ended.
Reinvoke(p) ==
    /\ pc[p] \in {"done", "failed"}
    /\ runs[p] < MaxRuns
    /\ runs' = [runs EXCEPT ![p] = @ + 1]
    /\ prev' = [prev EXCEPT ![p] =
                   [valid |-> TRUE, fetched |-> (pc[p] = "done" \/ err[p] = "smtp"),
                    page |-> page[p], changed |-> changed[p],
                    outcome |-> IF pc[p] = "done" THEN "done" ELSE err[p],
                    called |-> (sessions[p] > 0)]]
    /\ fileAtStart' = [fileAtStart EXCEPT ![p] = file]
    /\ pc' = [pc EXCEPT ![p] = "start"]
    /\ old_state' = [old_state EXCEPT ![p] = EmptyDict]
    /\ page' = [page EXCEPT ![p] = <<>>]
    /\ current_items' = [current_items EXCEPT ![p] = <<>>]
    /\ new_state' = [new_state EXCEPT ![p] = EmptyDict]
    /\ changed' = [changed EXCEPT ![p] = <<>>]
    /\ err' = [err EXCEPT ![p] = "none"]
    /\ sessions' = [sessions EXCEPT ![p] = 0]
    /\ outbox' = [outbox EXCEPT ![p] = <<>>]
    /\ log' = [log EXCEPT ![p] = <<>>]
    /\ UNCHANGED <<file, env, upstream, lastSaver, overlapped>>

Step(p) ==
    \/ LoadState(p)
    \/ Fetch(p)
    \/ FetchFail(p)
    \/ Diff(p)
    \/ AlertSkip(p)
    \/ SendAlert(p)
    \/ SaveOpen(p)
    \/ SaveWrite(p)

\* One invocation of the script, on any page of the catalogue.
Next == Step(1)

Spec == Init /\ [][Next]_vars

\* The scheduler invoking the script again and again, one run after the other,
\* the site serving pages of three listings.
InitRerun ==
    /\ file \in InitFiles
    /\ env \in Envs
    /\ upstream = "listings"
    /\ fileAtStart = [p \in Procs |-> file]
    /\ InitLocals

NextRerun == Step(1) \/ Reinvoke(1)

SpecRerun == InitRerun /\ [][NextRerun]_vars

\* Two instances on the same snapshot file, one run each, the pages the site
\* serves them differing in length.
InitConc ==
    /\ file \in InitFiles
    /\ env \in Envs
    /\ upstream = "race"
    /\ fileAtStart = [p \in Procs |-> file]
    /\ InitLocals

NextConc == \E p \in Procs : Step(p)

SpecConc == InitConc /\ [][NextConc]_vars

\* ------------------------------------------------------------------- claims

IsPrefix(a, b) == Len(a) <= Len(b) /\ SubSeq(b, 1, Len(a)) = a

\* The run of p has built new_state and changed.
Diffed(p) ==
    \/ pc[p] \in {"diffed", "alerted", "opened", "done"}
    \/ pc[p] = "failed" /\ err[p] = "smtp"

\* The run of p is past the alert step of main().
PastAlert(p) ==
    \/ pc[p] \in {"alerted", "opened", "done"}
    \/ pc[p] = "failed" /\ err[p] = "smtp"

KeysOf(d) == {d.keys[i] : i \in 1..Len(d.keys)}
ItemKeys(items) == {items[i].key : i \in 1..Len(items)}

\* C1: after the diff loop, an item has an entry in changed exactly when its
\* key is in the old snapshot with another price; the entry carries the stored
\* price as old_price and the item's price; nothing else has an entry.
C1_ChangedIffPriceDiffers ==
    Diffed(1) =>
        LET old == old_state[1]
            items == current_items[1]
            chg == changed[1]
            differs(it) == it.key \in KeysOf(old) /\ it.price # old.val[it.key].price
        IN  /\ \A i \in 1..Len(items) :
                  (\E j \in 1..Len(chg) : chg[j].url = items[i].key) <=> differs(items[i])
            /\ \A j \in 1..Len(chg) :
                  \E i \in 1..Len(items) :
                     /\ items[i].key = chg[j].url
                     /\ differs(items[i])
                     /\ chg[j].old_price = old.val[items[i].key].price
                     /\ chg[j].price = items[i].price
            /\ Len(chg) = Cardinality({i \in 1..Len(items) : differs(items[i])})

\* A run where one item changed price, one is new and one old key is gone.
C1_Witness ==
    /\ Diffed(1)
    /\ Len(changed[1]) = 1
    /\ changed[1][1].old_price = 1500 /\ changed[1][1].price = 1250
    /\ ItemKeys(current_items[1]) \ KeysOf(old_state[1]) # {}
    /\ KeysOf(old_state[1]) \ ItemKeys(current_items[1]) # {}

AllSet(e) == e.EMAIL_USER # <<>> /\ e.EMAIL_PASS # <<>> /\ e.ALERT_TO # <<>>

MaySend(p) == old_state[p].keys # <<>> /\ changed[p] # <<>> /\ AllSet(env)

\* C2: an SMTP session is opened and an email sent only with a non-empty old
\* snapshot, a non-empty changed list and all three variables set; otherwise
\* no session is opened, nothing is raised and the run goes on to save_state;
\* at most one email per run.
C2_EmailOnlyWhenGuardsHold ==
    /\ Len(outbox[1]) <= 1 /\ sessions[1] <= 1
    /\ (sessions[1] > 0 \/ outbox[1] # <<>>) => MaySend(1)
    /\ (PastAlert(1) /\ ~MaySend(1)) =>
          /\ sessions[1] = 0 /\ outbox[1] = <<>>
          /\ err[1] = "none"
          /\ pc[1] \in {"alerted", "opened", "done"}

\* A completed run with changes to report and no variable set: nothing sent.
C2_Witness ==
    /\ pc[1] = "done"
    /\ old_state[1].keys # <<>> /\ changed[1] # <<>>
    /\ \A v \in DOMAIN env : env[v] = <<>>
    /\ sessions[1] = 0 /\ outbox[1] = <<>>

\* C3: when a run completes, the file holds exactly the mapping of this run's
\* items: one member per item key with the item's name, size, price and url.
C3_SnapshotIsCurrentItems ==
    pc[1] = "done" =>
        /\ file.exists /\ WellFormed(file.data)
        /\ AsMapping(Parse(file.data)) =
              {<<current_items[1][i].key,
                 [name |-> current_items[1][i].name, size |-> current_items[1][i].size,
                  price |-> current_items[1][i].price, url |-> current_items[1][i].url]>> :
                  i \in 1..Len(current_items[1])}

\* A completed run that saw an item and did not see a key of the old snapshot.
C3_Witness ==
    /\ pc[1] = "done"
    /\ current_items[1] # <<>>
    /\ KeysOf(old_state[1]) \ ItemKeys(current_items[1]) # {}

\* C4: when the fetch fails the run ends there: the file is as it was before
\* the run, save_state was not reached and nothing was sent.
C4_FetchFailureTouchesNothing ==
    err[1] = "fetch" =>
        /\ pc[1] = "failed"
        /\ file = fileAtStart[1]
        /\ \A i \in 1..Len(log[1]) : log[1][i] # "save"
        /\ sessions[1] = 0 /\ outbox[1] = <<>>

\* A failed fetch with a snapshot on file.
C4_Witness == err[1] = "fetch" /\ file.exists /\ Len(file.data) > 2

\* C5: when send_alert raises, save_state is not reached and the file keeps
\* its contents; the next run, on the same page, builds the same changed list
\* and calls send_alert again, which opens a session again.
C5_AlertFailureKeepsSnapshot ==
    /\ err[1] = "smtp" =>
          /\ pc[1] = "failed"
          /\ file = fileAtStart[1]
          /\ \A i \in 1..Len(log[1]) : log[1][i] # "save"
    /\ (prev[1].outcome = "smtp" /\ Diffed(1) /\ page[1] = prev[1].page) =>
          /\ changed[1] = prev[1].changed
          /\ changed[1] # <<>>
          /\ PastAlert(1) =>
                /\ \E i \in 1..Len(log[1]) : log[1][i] = "alert"
                /\ sessions[1] = 1

\* The run after a failed alert, on the same page, past its own alert.
C5_Witness ==
    /\ prev[1].outcome = "smtp"
    /\ page[1] = prev[1].page
    /\ pc[1] = "done"
    /\ Len(outbox[1]) = 1

\* C6: a run on the page of the completed run before it, with the snapshot that
\* run saved, finds no change, sends nothing and writes the mapping it loaded.
C6_RerunIdempotent ==
    (prev[1].outcome = "done" /\ Diffed(1) /\ page[1] = prev[1].page) =>
        /\ changed[1] = <<>>
        /\ sessions[1] = 0 /\ outbox[1] = <<>>
        /\ pc[1] = "done" =>
              /\ WellFormed(file.data)
              /\ AsMapping(Parse(file.data)) = AsMapping(old_state[1])

\* A second completed run on the same page of two items.
C6_Witness ==
    /\ prev[1].outcome = "done"
    /\ page[1] = prev[1].page
    /\ pc[1] = "done"
    /\ Len(current_items[1]) = 2

OrderWithAlert == <<"load", "fetch", "diff", "alert", "save">>
OrderWithoutAlert == <<"load", "fetch", "diff", "save">>
Logged(p, step) == \E i \in 1..Len(log[p]) : log[p][i] = step

\* C7 as stated: the fetch comes first, then the load, the diff, the alert if
\* any, and the save.
C7_FetchThenLoad ==
    \/ IsPrefix(log[1], <<"fetch", "load", "diff", "alert", "save">>)
    \/ IsPrefix(log[1], <<"fetch", "load", "diff", "save">>)

\* C7 amended: the load comes first, then the fetch, the diff, the alert
\* exactly when the old snapshot and the changed list are non-empty, and the
\* save.
C7_LoadThenFetch ==
    /\ IsPrefix(log[1], OrderWithAlert) \/ IsPrefix(log[1], OrderWithoutAlert)
    /\ Logged(1, "alert") => old_state[1].keys # <<>> /\ changed[1] # <<>>
    /\ (Logged(1, "save") /\ old_state[1].keys # <<>> /\ changed[1] # <<>>)
          => Logged(1, "alert")

\* A run that went through all five steps.
C7_Witness == log[1] = OrderWithAlert /\ pc[1] = "done"

Ended == \A p \in Procs : pc[p] \in {"done", "failed"}

Labels == {SMALL_SIZES[k] : k \in 1..Len(SMALL_SIZES)}

\* A listing of the product family, of a configured small size, priced with
\* two decimals.
SmallPriced(card) ==
    /\ HasKeyword(card.text)
    /\ card.size_txt \in Labels
    /\ PriceOf(card) # NoPrice

\* A listing of the product family whose size is not a configured small size.
Oversized(card) == HasKeyword(card.text) /\ card.size_txt \notin Labels

\* C9: a run on a page of one small priced listing and one oversized listing
\* leaves a snapshot of exactly one entry, the small one; every entry of a
\* snapshot comes from a listing of a configured small size, and its size is
\* the first label its block's text contains.
C9_OversizedNotTracked ==
    pc[1] = "done" =>
        /\ Len(page[1]) = 2 =>
              \A i, j \in 1..2 :
                  (i # j /\ SmallPriced(page[1][i]) /\ Oversized(page[1][j])) =>
                      KeysOf(Parse(file.data)) = {UrlOf(page[1][i])}
        /\ \A k \in KeysOf(Parse(file.data)) :
              \E i \in 1..Len(page[1]) :
                 /\ UrlOf(page[1][i]) = k
                 /\ page[1][i].size_txt \in Labels
                 /\ Parse(file.data).val[k].size = is_small_size(page[1][i].text)

\* The k-th smallest element of a set of numbers.
Kth(S, k) == CHOOSE i \in S : Cardinality({j \in S : j <= i}) = k

\* The blocks scrape_items is said to return: keyword, size label and price
\* found, and no earlier such block with the same resolved URL.
Retained(cards) ==
    {i \in 1..Len(cards) :
        /\ HasKeyword(cards[i].text)
        /\ \E k \in 1..Len(SMALL_SIZES) : Contains(SMALL_SIZES[k], cards[i].text)
        /\ PriceOf(cards[i]) # NoPrice
        /\ ~\E j \in 1..(i - 1) :
               /\ HasKeyword(cards[j].text)
               /\ \E k \in 1..Len(SMALL_SIZES) : Contains(SMALL_SIZES[k], cards[j].text)
               /\ PriceOf(cards[j]) # NoPrice
               /\ UrlOf(cards[j]) = UrlOf(cards[i])}

Fetched(p) == pc[p] = "scraped" \/ Diffed(p)

\* C10: scrape_items returns, in document order, the blocks with keyword, size
\* label and price that no earlier such block shares its URL with; the keys
\* are pairwise distinct and every price is a number.
C10_ScrapeKeepsFirstPerUrl ==
    Fetched(1) =>
        LET items == current_items[1]
            kept == Retained(page[1])
        IN  /\ Len(items) = Cardinality(kept)
            /\ \A k \in 1..Len(items) :
                  /\ items[k].key = UrlOf(page[1][Kth(kept, k)])
                  /\ items[k].price = PriceOf(page[1][Kth(kept, k)])
                  /\ items[k].name = NameOf(page[1][Kth(kept, k)])
                  /\ items[k].price # NoPrice
            /\ \A k, m \in 1..Len(items) : k # m => items[k].key # items[m].key

\* A rejected block ahead of an accepted one with the same URL, which is kept.
C10_Witness ==
    /\ Fetched(1)
    /\ Len(page[1]) = 2
    /\ ~Passes(page[1][1]) /\ Passes(page[1][2])
    /\ UrlOf(page[1][1]) = UrlOf(page[1][2])
    /\ Len(current_items[1]) = 1

====
